---- MODULE Spec2Model ----
(***************************************************************************)
(* The AST-to-CFG-and-facts builder of analyse.py: the expression shape    *)
(* tests, the ExpressionVisitor scan, the StatementVisitor descent with    *)
(* its label counter, fact relations and graph, generate_cfg, and the      *)
(* command-line driver that writes, renders or analyses the result.        *)
(*                                                                         *)
(* A run is one process: the parser hands over an AST, generate_cfg walks  *)
(* it in one synchronous step (it either returns or raises), and the       *)
(* driver then emits output according to its arguments.                    *)
(***************************************************************************)
EXTENDS Bags, FiniteSets, Integers, Sequences, TLC

VARIABLES
    ast,        \* the tree parse_file returned
    args,       \* the parsed command line: [output_edb, analysis]
    pc,         \* where the driver is
    v,          \* the StatementVisitor: counter, relations, graph
    frag,       \* what v.visit(ast) returned: [init, finals]
    edb,        \* the relations generate_cfg returned: [init, final]
    err,        \* the exception that ended the run, or NoError
    files,      \* names of the fact files on disk in the output directory
    rendered,   \* whether cfg.render ran
    analysed,   \* whether the Datalog engine was invoked
    calls       \* history: the visits the descent made, once it returned

vars ==
    <<ast, args, pc, v, frag, edb, err, files, rendered, analysed, calls>>

(***************************************************************************)
(* Bounds of the inputs.                                                   *)
(***************************************************************************)
\* Largest number of statement nodes in a function body.
MaxSize == 4
\* Largest number of expression nodes in the expressions of one statement.
MaxExprSize == 4

(***************************************************************************)
(* Python values.                                                          *)
(***************************************************************************)
\* Python's None where the code returns a name or None.
None == "None"
\* Truthiness of a value that is a str or None (`if is_deref(n):`).
Truthy(x) == x # None /\ x # ""

NoError == "NoError"
UnsupportedLanguageConstruct == "UnsupportedLanguageConstruct"
NameError == "NameError"
AssertionError == "AssertionError"
TypeError == "TypeError"

(***************************************************************************)
(* pycparser AST nodes, as records tagged with the node's class name.      *)
(***************************************************************************)
NoneNode == [kind |-> "NoneType"]
Constant(val) == [kind |-> "Constant", value |-> val]
ID(name) == [kind |-> "ID", name |-> name]
UnaryOp(op, e) == [kind |-> "UnaryOp", op |-> op, expr |-> e]
BinaryOp(l, r) == [kind |-> "BinaryOp", op |-> "+", left |-> l, right |-> r]
\* An expression kind the ExpressionVisitor has no method for.
ArrayRef == [kind |-> "ArrayRef"]
Assignment(l, r) == [kind |-> "Assignment", lvalue |-> l, rvalue |-> r]
Return(e) == [kind |-> "Return", expr |-> e]
\* name is n.name.name; args is the ExprList's items, <<>> for the parser's
\* None (a call without arguments).
FuncCall(name, as) == [kind |-> "FuncCall", name |-> name, args |-> as]
If(c, t, f) == [kind |-> "If", cond |-> c, iftrue |-> t, iffalse |-> f]
While(c, s) == [kind |-> "While", cond |-> c, stmt |-> s]
\* block_items is the list of statements, <<>> for the parser's None (`{}`).
Compound(items) == [kind |-> "Compound", block_items |-> items]
\* A statement kind the StatementVisitor has no method for.
Break == [kind |-> "Break"]
FuncDef(name, body) == [kind |-> "FuncDef", name |-> name, body |-> body]
Decl == [kind |-> "Decl"]
FileAST(ext) == [kind |-> "FileAST", ext |-> ext]

(***************************************************************************)
(* The inputs: bounded families of trees.                                  *)
(***************************************************************************)
UnaryOps == {"*", "&", "-"}
Atoms == {Constant("1"), ID("x"), ID("p")}

\* Supported expressions with exactly n nodes.
RECURSIVE ExprOfSize(_)
ExprOfSize(n) ==
    IF n <= 0 THEN {}
    ELSE IF n = 1 THEN Atoms
    ELSE {UnaryOp(op, e) : op \in UnaryOps, e \in ExprOfSize(n - 1)}
         \cup UNION {{BinaryOp(l, r) : l \in ExprOfSize(i),
                                       r \in ExprOfSize(n - 1 - i)}
                     : i \in 1..(n - 2)}

Exprs == UNION {ExprOfSize(n) : n \in 1..MaxExprSize}

\* Expressions the scan rejects, at the root or below an operator.
UnsupportedExprs ==
    {ArrayRef}
    \cup {UnaryOp(op, ArrayRef) : op \in UnaryOps}
    \cup {BinaryOp(e, ArrayRef) : e \in Atoms}
    \cup {BinaryOp(ArrayRef, e) : e \in Atoms}

\* Argument lists: one argument of any shape, or up to MaxExprSize - 2
\* simple ones.
SimpleArgs == Atoms \cup {UnaryOp("*", ID("p"))}
ArgLists ==
    {<<e>> : e \in Exprs}
    \cup UNION {[1..k -> SimpleArgs] : k \in 0..(MaxExprSize - 2)}

\* Single statements over every expression within the bound, and those an
\* unsupported expression makes fail.
ElementaryStmts ==
    UNION {{Assignment(l, r) : l \in ExprOfSize(q[1]), r \in ExprOfSize(q[2])}
           : q \in {q \in (1..MaxExprSize) \X (1..MaxExprSize)
                      : q[1] + q[2] <= MaxExprSize}}
    \cup {Return(e) : e \in Exprs \cup {NoneNode}}
    \cup {FuncCall("f", as) : as \in ArgLists}
    \cup UNION {{Return(u), Assignment(ID("x"), u), Assignment(u, ID("x")),
                 FuncCall("f", <<u>>), FuncCall("g", <<ID("x"), u>>)}
                : u \in UnsupportedExprs}

\* The statements the control-flow family is built from.
Cond == ID("c")
Leaves == {Assignment(ID("y"), UnaryOp("*", ID("p"))), Return(ID("x"))}

\* Accepted statements with exactly n statement nodes (a block counts as
\* one node), and blocks whose statements have n nodes in total.
RECURSIVE StmtOfSize(_), BlockOfSize(_)
StmtOfSize(n) ==
    IF n <= 0 THEN {}
    ELSE IF n = 1 THEN Leaves \cup {While(Cond, NoneNode)}
    ELSE {While(Cond, s) : s \in StmtOfSize(n - 1)}
         \cup {If(Cond, s, NoneNode) : s \in StmtOfSize(n - 1)}
         \cup {If(Cond, NoneNode, s) : s \in StmtOfSize(n - 1)}
         \cup UNION {{If(Cond, t, f) : t \in StmtOfSize(i),
                                       f \in StmtOfSize(n - 1 - i)}
                     : i \in 1..(n - 2)}
         \cup {Compound(b) : b \in BlockOfSize(n - 1)}
BlockOfSize(n) ==
    IF n = 0 THEN {<<>>}
    ELSE UNION {{<<s>> \o r : s \in StmtOfSize(i), r \in BlockOfSize(n - i)}
                : i \in 1..n}

Main(body) == FileAST(<<FuncDef("main", body)>>)

ControlPrograms ==
    {Main(Compound(b)) : b \in UNION {BlockOfSize(n) : n \in 1..MaxSize}}

\* Statements the builder rejects.
RejectedStmts ==
    {Break, Compound(<<>>), If(Cond, NoneNode, NoneNode),
     While(NoneNode, NoneNode), If(NoneNode, Return(ID("x")), NoneNode),
     Return(ArrayRef)}

\* A rejected statement after an accepted prefix: in the block itself, as a
\* loop body, and as either branch of an if.
RejectedPrograms ==
    UNION {{Main(Compound(b \o <<r>>)),
            Main(Compound(b \o <<While(Cond, r)>>)),
            Main(Compound(b \o <<If(Cond, r, NoneNode)>>)),
            Main(Compound(b \o <<If(Cond, Return(ID("x")), r)>>))}
           : <<b, r>> \in (UNION {BlockOfSize(n) : n \in 0..(MaxSize - 2)})
                          \X RejectedStmts}

StatementPrograms == {Main(Compound(<<s>>)) : s \in ElementaryStmts}

RootPrograms ==
    LET body == Compound(<<Return(Constant("0"))>>) IN
    {FileAST(<<>>),
     FileAST(<<FuncDef("main", body), FuncDef("main", body)>>),
     FileAST(<<Decl, FuncDef("main", body)>>),
     FileAST(<<Decl>>),
     FileAST(<<FuncDef("foo", body)>>),
     FileAST(<<FuncDef("main", body)>>)}

Programs ==
    ControlPrograms \cup RejectedPrograms \cup StatementPrograms
    \cup RootPrograms

(***************************************************************************)
(* The expression shape tests.                                             *)
(***************************************************************************)
\* A variant of is_deref that does not look at the operator.
is_deref_AnyOp(n) ==
    IF n.kind = "UnaryOp" /\ n.expr.kind = "ID"
    THEN n.expr.name ELSE None

is_deref(n) ==
    IF n.kind = "UnaryOp" /\ n.op = "*" /\ n.expr.kind = "ID"
    THEN n.expr.name ELSE None

is_address(n) ==
    IF n.kind = "UnaryOp" /\ n.op = "&" /\ n.expr.kind = "ID"
    THEN n.expr.name ELSE None

\* A variant of is_var that also answers for a variable under a unary
\* operator.
is_var_AnyOperand(n) ==
    IF n.kind = "ID" THEN n.name
    ELSE IF n.kind = "UnaryOp" /\ n.expr.kind = "ID" THEN n.expr.name
    ELSE None

is_var(n) == IF n.kind = "ID" THEN n.name ELSE None

is_const(n) == IF n.kind = "Constant" THEN n.value ELSE None

(***************************************************************************)
(* Sequencing.  A call either returns a value or raises; every result      *)
(* record has an err field, NoError when the call returned.  Bind names    *)
(* an intermediate value, Try continues with the result of a call that     *)
(* returned and otherwise lets its exception propagate unchanged.          *)
(***************************************************************************)
Bind(x, K(_)) == K(x)
Try(r, K(_)) == IF r.err # NoError THEN r ELSE K(r)

(***************************************************************************)
(* ExpressionVisitor: ev is the visitor object, [variables,                *)
(* deref_variables], with err the exception raised during the descent.     *)
(***************************************************************************)
NewExpressionVisitor ==
    [variables |-> {}, deref_variables |-> {}, err |-> NoError]

RECURSIVE ExprVisit(_, _)
ExprVisit(ev, n) ==
    IF n.kind = "Constant" THEN ev
    ELSE IF n.kind = "ID"
    THEN [ev EXCEPT !.variables = @ \cup {n.name}]
    ELSE IF n.kind = "UnaryOp"
    THEN IF Truthy(is_deref(n))
         THEN [ev EXCEPT !.deref_variables = @ \cup {is_deref(n)}]
         ELSE ExprVisit(ev, n.expr)
    ELSE IF n.kind = "BinaryOp"
    THEN Try(ExprVisit(ev, n.left), LAMBDA l : ExprVisit(l, n.right))
    ELSE [ev EXCEPT !.err = UnsupportedLanguageConstruct]

(***************************************************************************)
(* StatementVisitor.  st is the visitor object: the label counter, the     *)
(* graph (nodes, edges with their branch tag) and the relations.  The      *)
(* relations the code appends to while iterating over a Python set         *)
(* (variable, used, used_deref) have no defined order: variable, which the *)
(* code keeps free of duplicates, is a set, and used and used_deref are    *)
(* bags.  The others are sequences, in append order.                       *)
(***************************************************************************)
NewStatementVisitor ==
    [idx |-> 1,
     nodes |-> <<>>,
     edges |-> <<>>,
     edb |-> [flow |-> <<>>, label |-> <<>>, variable |-> {},
              assignment |-> <<>>, condition |-> <<>>, return |-> <<>>,
              call |-> <<>>, function |-> <<>>,
              used |-> EmptyBag, defined |-> <<>>, defined_deref |-> <<>>,
              used_deref |-> EmptyBag,
              rhs_var |-> <<>>, rhs_const |-> <<>>, rhs_deref |-> <<>>,
              rhs_address |-> <<>>,
              call_arg_var |-> <<>>, call_arg_const |-> <<>>,
              call_arg_deref |-> <<>>]]

\* self.edb[rel].append(t)
AppendFact(st, rel, t) == [st EXCEPT !.edb[rel] = Append(@, t)]

\* "l" + str(index)
LabelOf(i) == "l" \o ToString(i)

\* A variant of _new_label that does not advance the counter.
_new_label_Reuse(st) ==
    [st |-> AppendFact(st, "label", LabelOf(st.idx)),
     label |-> LabelOf(st.idx)]

\* Returns [st, label].
_new_label(st) ==
    [st |-> AppendFact([st EXCEPT !.idx = @ + 1], "label", LabelOf(st.idx)),
     label |-> LabelOf(st.idx)]

\* Returns [st, label].
_add_elementary_block(st) ==
    Bind(_new_label(st), LAMBDA r :
        [st |-> [r.st EXCEPT !.nodes = Append(@, r.label)],
         label |-> r.label])

\* arc_label is "true", "false" or None.
_add_arc(st, source, destination, arc_label) ==
    AppendFact([st EXCEPT !.edges =
                            Append(@, <<source, destination, arc_label>>)],
               "flow", <<source, destination>>)

\* for s in sources: self._add_arc(s, destination)
RECURSIVE AddArcsFrom(_, _, _)
AddArcsFrom(st, sources, destination) ==
    IF sources = <<>> THEN st
    ELSE AddArcsFrom(_add_arc(st, Head(sources), destination, None),
                     Tail(sources), destination)

\* The visitor after _process_expr's loop over the names found.
AddVariables(st, ev) ==
    [st EXCEPT !.edb.variable = @ \cup ev.variables \cup ev.deref_variables]

\* Returns [st, variables, deref_variables, err].
_process_expr(st, n) ==
    Bind(ExprVisit(NewExpressionVisitor, n), LAMBDA ev :
        IF ev.err # NoError
        THEN [st |-> st, variables |-> {}, deref_variables |-> {},
              err |-> ev.err]
        ELSE [st |-> AddVariables(st, ev),
              variables |-> ev.variables,
              deref_variables |-> ev.deref_variables,
              err |-> NoError])

\* A variant of _add_used that records in used the direct reads only.
_add_used_Disjoint(st, variables, deref_vars, label) ==
    [st EXCEPT
       !.edb.used = @ (+) SetToBag({<<x, label>> : x \in variables}),
       !.edb.used_deref =
         @ (+) SetToBag({<<x, label>> : x \in deref_vars})]

_add_used(st, variables, deref_vars, label) ==
    [st EXCEPT
       !.edb.used =
         @ (+) SetToBag({<<x, label>> : x \in variables \cup deref_vars}),
       !.edb.used_deref =
         @ (+) SetToBag({<<x, label>> : x \in deref_vars})]

\* What a visit method hands back: the visitor after the call and either the
\* fragment (init, finals) it returned or the exception it raised.
Returned(st, init, finals) ==
    [st |-> st, init |-> init, finals |-> finals, err |-> NoError]
Raised(st, e) ==
    [st |-> st, init |-> None, finals |-> <<>>, err |-> e]

\* _process_expr followed by _add_used, as every statement kind does for the
\* expressions it reads: the visitor afterwards, or the exception.
ProcessAndAddUsed(st, n, label) ==
    Bind(_process_expr(st, n), LAMBDA p :
        IF p.err # NoError THEN Raised(p.st, p.err)
        ELSE Returned(_add_used(p.st, p.variables, p.deref_variables, label),
                      label, <<>>))

\* if value: self.edb[rel].append(t)
TagIf(st, rel, value, t) ==
    IF Truthy(value) THEN AppendFact(st, rel, t) ELSE st

\* for arg in args: _process_expr(arg); _add_used(...)
RECURSIVE CallArgs(_, _, _)
CallArgs(st, as, label) ==
    IF as = <<>> THEN Returned(st, label, <<>>)
    ELSE Try(ProcessAndAddUsed(st, Head(as), label), LAMBDA r :
             CallArgs(r.st, Tail(as), label))

\* The three shape tests on the sole argument of a call.
CallArgTags(st, name, arg, label) ==
    TagIf(TagIf(TagIf(st,
        "call_arg_deref", is_deref(arg), <<name, is_deref(arg), label>>),
        "call_arg_var", is_var(arg), <<name, is_var(arg), label>>),
        "call_arg_const", is_const(arg), <<name, is_const(arg), label>>)

\* if n.name.name not in self.edb["function"]: append it
AddFunction(st, name) ==
    IF \E i \in 1..Len(st.edb.function) : st.edb.function[i] = name
    THEN st ELSE AppendFact(st, "function", name)

RECURSIVE Visit(_, _), visit_Compound(_, _), CompoundTail(_, _, _, _),
          visit_If(_, _), IfTrue(_, _, _), IfFalse(_, _, _, _),
          visit_While(_, _)

visit_FuncCall(st, n) ==
    Bind(_add_elementary_block(st), LAMBDA b :
    Bind(AppendFact(AddFunction(b.st, n.name), "call", <<n.name, b.label>>),
         LAMBDA s :
    IF n.args # <<>>
    THEN Try(CallArgs(s, n.args, b.label), LAMBDA a :
             IF Len(n.args) = 1
             THEN Returned(CallArgTags(a.st, n.name, n.args[1], b.label),
                           b.label, <<b.label>>)
             ELSE Returned(a.st, b.label, <<b.label>>))
    ELSE Returned(s, b.label, <<b.label>>)))

\* The four shape tests on the right-hand side of an assignment.
RhsTags(st, rvalue, label) ==
    TagIf(TagIf(TagIf(TagIf(st,
        "rhs_deref", is_deref(rvalue), <<is_deref(rvalue), label>>),
        "rhs_address", is_address(rvalue), <<is_address(rvalue), label>>),
        "rhs_var", is_var(rvalue), <<is_var(rvalue), label>>),
        "rhs_const", is_const(rvalue), <<is_const(rvalue), label>>)

\* list(s)[0] of a one-element set
TheOne(s) == CHOOSE x \in s : TRUE

\* The classification of the left-hand side, l being what _process_expr
\* returned for it.
Define(l, label) ==
    IF Cardinality(l.variables) = 1 /\ Cardinality(l.deref_variables) = 0
    THEN Returned(AppendFact(AppendFact(l.st,
                      "defined", <<TheOne(l.variables), label>>),
                      "assignment", label),
                  label, <<label>>)
    ELSE IF Cardinality(l.variables) = 0
            /\ Cardinality(l.deref_variables) = 1
    THEN Returned(AppendFact(AppendFact(l.st,
                      "defined_deref", <<TheOne(l.deref_variables), label>>),
                      "assignment", label),
                  label, <<label>>)
    ELSE Raised(l.st, UnsupportedLanguageConstruct)

visit_Assignment(st, n) ==
    Bind(_add_elementary_block(st), LAMBDA b :
    Try(ProcessAndAddUsed(b.st, n.rvalue, b.label), LAMBDA r :
    Bind(_process_expr(RhsTags(r.st, n.rvalue, b.label), n.lvalue), LAMBDA l :
    IF l.err # NoError THEN Raised(l.st, l.err)
    ELSE Define(l, b.label))))

\* A variant of visit_Return that leaves the return block as an open exit.
visit_Return_OpenExit(st, n) ==
    Bind(_add_elementary_block(st), LAMBDA b :
    Try(ProcessAndAddUsed(b.st, n.expr, b.label), LAMBDA r :
    Returned(AppendFact(r.st, "return", b.label), b.label, <<b.label>>)))

visit_Return(st, n) ==
    Bind(_add_elementary_block(st), LAMBDA b :
    Try(ProcessAndAddUsed(b.st, n.expr, b.label), LAMBDA r :
    Returned(AppendFact(r.st, "return", b.label), b.label, <<>>)))

\* The block of a condition: the elementary block, its condition fact and
\* the reads of the condition expression.
ConditionBlock(st, cond) ==
    Bind(_add_elementary_block(st), LAMBDA b :
    ProcessAndAddUsed(AppendFact(b.st, "condition", b.label), cond, b.label))


visit_Compound(st, n) ==
    \* head, *tail = n.block_items, with block_items None for an empty block
    IF n.block_items = <<>> THEN Raised(st, TypeError)
    ELSE Try(Visit(st, Head(n.block_items)), LAMBDA h :
             CompoundTail(h.st, Tail(n.block_items), h.init, h.finals))

\* The loop over the statements of tail.
CompoundTail(st, tail, head_init, prev_finals) ==
    IF tail = <<>> THEN Returned(st, head_init, prev_finals)
    ELSE Try(Visit(st, Head(tail)), LAMBDA c :
             CompoundTail(AddArcsFrom(c.st, prev_finals, c.init),
                          Tail(tail), head_init, c.finals))

\* The true side of an if: the visitor and if_finals after it.
IfTrue(st, n, cond_label) ==
    IF n.iftrue # NoneNode
    THEN Try(Visit(st, n.iftrue), LAMBDA t :
             Returned(_add_arc(t.st, cond_label, t.init, "true"),
                      cond_label, t.finals))
    ELSE Returned(st, cond_label, <<cond_label>>)

\* A variant of IfFalse in which an absent false branch adds no open exit.
IfFalse_NoFallthrough(st, n, cond_label, if_finals) ==
    IF n.iffalse # NoneNode
    THEN Try(Visit(st, n.iffalse), LAMBDA f :
             Returned(_add_arc(f.st, cond_label, f.init, "false"),
                      cond_label, if_finals \o f.finals))
    ELSE Returned(st, cond_label, if_finals)

\* The false side of an if, if_finals being what the true side left.
IfFalse(st, n, cond_label, if_finals) ==
    IF n.iffalse # NoneNode
    THEN Try(Visit(st, n.iffalse), LAMBDA f :
             Returned(_add_arc(f.st, cond_label, f.init, "false"),
                      cond_label, if_finals \o f.finals))
    ELSE Returned(st, cond_label, Append(if_finals, cond_label))

visit_If(st, n) ==
    IF n.cond = NoneNode THEN Raised(st, UnsupportedLanguageConstruct)
    ELSE Try(ConditionBlock(st, n.cond), LAMBDA c :
         IF n.iftrue = NoneNode /\ n.iffalse = NoneNode
         THEN Raised(c.st, UnsupportedLanguageConstruct)
         ELSE Try(IfTrue(c.st, n, c.init), LAMBDA t :
                  IfFalse(t.st, n, c.init, t.finals)))

\* A variant of visit_While that hands the body's open exits to its caller
\* next to the condition.
visit_While_BodyExits(st, n) ==
    IF n.cond = NoneNode THEN Raised(st, UnsupportedLanguageConstruct)
    ELSE Try(ConditionBlock(st, n.cond), LAMBDA c :
         IF n.stmt # NoneNode
         THEN Try(Visit(c.st, n.stmt), LAMBDA w :
                  Returned(AddArcsFrom(_add_arc(w.st, c.init, w.init, "true"),
                                       w.finals, c.init),
                           c.init, <<c.init>> \o w.finals))
         ELSE Returned(c.st, c.init, <<c.init>>))

visit_While(st, n) ==
    IF n.cond = NoneNode THEN Raised(st, UnsupportedLanguageConstruct)
    ELSE Try(ConditionBlock(st, n.cond), LAMBDA c :
         IF n.stmt # NoneNode
         THEN Try(Visit(c.st, n.stmt), LAMBDA w :
                  Returned(AddArcsFrom(_add_arc(w.st, c.init, w.init, "true"),
                                       w.finals, c.init),
                           c.init, <<c.init>>))
         ELSE Returned(c.st, c.init, <<c.init>>))

visit_FuncDef(st, n) ==
    \* assert(n.decl.name == 'main')
    IF n.name # "main" THEN Raised(st, AssertionError)
    ELSE Visit(st, n.body)

visit_FileAST(st, n) ==
    IF Len(n.ext) = 0 THEN Raised(st, UnsupportedLanguageConstruct)
    ELSE IF Len(n.ext) > 1 THEN Raised(st, UnsupportedLanguageConstruct)
    ELSE IF n.ext[1].kind = "FuncDef" THEN visit_FuncDef(st, n.ext[1])
    \* the raise names `node`, which this method does not define
    ELSE Raised(st, NameError)

\* getattr(self, 'visit_' + class name, self.generic_visit)(node)
Visit(st, n) ==
    CASE n.kind = "FileAST" -> visit_FileAST(st, n)
      [] n.kind = "FuncDef" -> visit_FuncDef(st, n)
      [] n.kind = "Compound" -> visit_Compound(st, n)
      [] n.kind = "If" -> visit_If(st, n)
      [] n.kind = "FuncCall" -> visit_FuncCall(st, n)
      [] n.kind = "While" -> visit_While(st, n)
      [] n.kind = "Assignment" -> visit_Assignment(st, n)
      [] n.kind = "Return" -> visit_Return(st, n)
      [] OTHER -> Raised(st, UnsupportedLanguageConstruct)

(***************************************************************************)
(* The call tree of the descent.  Trace(st, n) is the visit of node n by   *)
(* a visitor in state st: the node, the counter when the visit began (lo)  *)
(* and ended (hi), the fragment the visit returned, and the visits of the  *)
(* sub-statements in the states the code makes them in.  It is defined on  *)
(* the statements of an accepted program; generate_cfg records it in the   *)
(* history variable calls.                                                 *)
(***************************************************************************)
Absent == [n |-> NoneNode, lo |-> 0, hi |-> 0, init |-> None,
           finals |-> <<>>, kids |-> <<>>]

RECURSIVE Trace(_, _), TraceBlock(_, _, _, _), TraceKids(_, _)
Trace(st, n) ==
    Bind(Visit(st, n), LAMBDA r :
        [n |-> n, lo |-> st.idx, hi |-> r.st.idx, init |-> r.init,
         finals |-> r.finals, kids |-> TraceKids(st, n)])

\* The statements of a block: each is visited after the arcs into its
\* predecessor have been added.
TraceBlock(st, items, prev_finals, first) ==
    IF items = <<>> THEN <<>>
    ELSE Bind(Visit(st, Head(items)), LAMBDA c :
         <<Trace(st, Head(items))>>
         \o TraceBlock(IF first THEN c.st
                       ELSE AddArcsFrom(c.st, prev_finals, c.init),
                       Tail(items), c.finals, FALSE))

TraceKids(st, n) ==
    CASE n.kind = "Compound" -> TraceBlock(st, n.block_items, <<>>, TRUE)
      [] n.kind = "If" ->
           Bind(ConditionBlock(st, n.cond), LAMBDA c :
             <<IF n.iftrue # NoneNode THEN Trace(c.st, n.iftrue) ELSE Absent,
               IF n.iffalse # NoneNode
               THEN Trace(IfTrue(c.st, n, c.init).st, n.iffalse)
               ELSE Absent>>)
      [] n.kind = "While" ->
           Bind(ConditionBlock(st, n.cond), LAMBDA c :
             <<IF n.stmt # NoneNode THEN Trace(c.st, n.stmt) ELSE Absent>>)
      [] OTHER -> <<>>

\* Every visit in the tree below (and including) t.
RECURSIVE Visits(_)
Visits(t) ==
    IF t = Absent THEN {}
    ELSE {t} \cup UNION {Visits(t.kids[i]) : i \in DOMAIN t.kids}

(***************************************************************************)
(* generate_cfg and the command-line driver.                               *)
(***************************************************************************)
Range(s) == {s[i] : i \in DOMAIN s}

\* The file names write_relations creates for the dict generate_cfg returns.
RelationNames == DOMAIN NewStatementVisitor.edb \cup {"init", "final"}

Init ==
    /\ ast \in Programs
    /\ args \in [output_edb : BOOLEAN, analysis : BOOLEAN]
    /\ pc = "start"
    /\ v = NewStatementVisitor
    /\ frag = [init |-> None, finals |-> <<>>]
    /\ edb = [init |-> <<>>, final |-> {}]
    /\ err = NoError
    /\ files = {}
    /\ rendered = FALSE
    /\ analysed = FALSE
    /\ calls = {}

\* A variant of GenerateCfg whose final holds the open exits only.
GenerateCfg_FinalsOnly ==
    /\ pc = "start"
    /\ LET r == Visit(NewStatementVisitor, ast) IN
       /\ v' = r.st
       /\ IF r.err # NoError
          THEN /\ err' = r.err
               /\ pc' = "raised"
               /\ UNCHANGED <<frag, edb, calls>>
          ELSE /\ frag' = [init |-> r.init, finals |-> r.finals]
               /\ calls' = Visits(Trace(NewStatementVisitor, ast.ext[1].body))
               /\ edb' = [init |-> <<r.init>>, final |-> Range(r.finals)]
               /\ pc' = "built"
               /\ err' = NoError
    /\ UNCHANGED <<ast, args, files, rendered, analysed>>

\* cfg, edb = generate_cfg(ast): the whole walk, then init and final.  An
\* exception leaves the visitor as it was when raised and ends the process.
GenerateCfg ==
    /\ pc = "start"
    /\ LET r == Visit(NewStatementVisitor, ast) IN
       /\ v' = r.st
       /\ IF r.err # NoError
          THEN /\ err' = r.err
               /\ pc' = "raised"
               /\ UNCHANGED <<frag, edb, calls>>
          ELSE /\ frag' = [init |-> r.init, finals |-> r.finals]
               /\ calls' = Visits(Trace(NewStatementVisitor, ast.ext[1].body))
               /\ edb' = [init |-> <<r.init>>,
                          final |-> Range(r.finals) \cup Range(r.st.edb.return)]
               /\ pc' = "built"
               /\ err' = NoError
    /\ UNCHANGED <<ast, args, files, rendered, analysed>>

\* A variant of WriteRelations that also dumps what a failed build left.
WriteRelations_Always ==
    /\ pc \in {"built", "raised"}
    /\ args.output_edb
    /\ files' = files \cup {<<"output", r>> : r \in RelationNames}
    /\ pc' = "written"
    /\ UNCHANGED <<ast, args, v, frag, edb, err, rendered, analysed, calls>>

\* if args.output_edb: write_relations(args.output_edb, edb)
WriteRelations ==
    /\ pc = "built"
    /\ args.output_edb
    /\ files' = files \cup {<<"output", r>> : r \in RelationNames}
    /\ pc' = "written"
    /\ UNCHANGED <<ast, args, v, frag, edb, err, rendered, analysed, calls>>

\* cfg.render(directory=args.output_edb)
Render ==
    /\ pc = "written"
    /\ rendered' = TRUE
    /\ pc' = "done"
    /\ UNCHANGED <<ast, args, v, frag, edb, err, files, analysed, calls>>

\* elif args.analysis: check_relations(edb, datalog_script), which stages the
\* relations in a temporary directory and runs the engine on them.
CheckRelations ==
    /\ pc = "built"
    /\ ~args.output_edb
    /\ args.analysis
    /\ files' = files \cup {<<"tmp", r>> : r \in RelationNames}
    /\ analysed' = TRUE
    /\ pc' = "done"
    /\ UNCHANGED <<ast, args, v, frag, edb, err, rendered, calls>>

\* Neither option given: the process ends after the build.
Exit ==
    /\ pc = "built"
    /\ ~args.output_edb
    /\ ~args.analysis
    /\ pc' = "done"
    /\ UNCHANGED <<ast, args, v, frag, edb, err, files, rendered, analysed, calls>>

Next == GenerateCfg \/ WriteRelations \/ Render \/ CheckRelations \/ Exit

Spec == Init /\ [][Next]_vars

(***************************************************************************)
(* Views of the state.                                                     *)
(***************************************************************************)
\* generate_cfg returned: the program was accepted.
Accepted == pc \in {"built", "written", "done"}

\* The visits of the statements of the accepted program.
ProgramVisits == calls

Flow == Range(v.edb.flow)
\* The number of tuples (s, d) in flow.
EdgeCount(s, d) ==
    Cardinality({i \in DOMAIN v.edb.flow : v.edb.flow[i] = <<s, d>>})
\* The destinations of the edges leaving l.
Successors(l) == {e[2] : e \in {f \in Flow : f[1] = l}}
\* The labels allocated during a visit.
LabelsOf(t) == {LabelOf(i) : i \in t.lo..(t.hi - 1)}
\* How many tuples of the relation rel end with label (the label is the last
\* field of every tuple).
TagCount(rel, label) ==
    Cardinality({i \in DOMAIN v.edb[rel] :
                   v.edb[rel][i][Len(v.edb[rel][i])] = label})
CallArgTagCount(label) ==
    TagCount("call_arg_var", label) + TagCount("call_arg_const", label)
    + TagCount("call_arg_deref", label)
\* Pairs of visits of consecutive statements of one block.
Consecutive ==
    UNION {{<<t.kids[i], t.kids[i + 1]>> : i \in 1..(Len(t.kids) - 1)}
           : t \in {u \in ProgramVisits : u.n.kind = "Compound"}}

(***************************************************************************)
(* Properties.                                                             *)
(***************************************************************************)

\* C1 (as stated): for every accepted program, every label in final has
\* zero outgoing edges in flow.
C1_SinkCompleteness ==
    Accepted => \A l \in edb.final : Successors(l) = {}

\* C1 (amended): for every accepted program, every label in final that is
\* not a condition label has zero outgoing edges in flow; a final label
\* that has outgoing edges is the condition of a loop or of an if.
C1_SinksExceptConditions ==
    Accepted =>
        \A l \in edb.final :
            l \notin Range(v.edb.condition) => Successors(l) = {}

\* An accepted program that ends in a loop whose body returns: final holds
\* the loop's condition, which has an edge into the body, and the return.
C1_Witness ==
    /\ Accepted
    /\ \E l \in edb.final :
          l \in Range(v.edb.condition) /\ Successors(l) # {}
    /\ \E l \in edb.final : l \in Range(v.edb.return)
    /\ \E l \in edb.final : l \in Range(v.edb.assignment)

\* The labels a relation of label-ended tuples mentions.
LastFields(rel) == {t[Len(t)] : t \in Range(v.edb[rel])}
ReferencedLabels ==
    {e[1] : e \in Flow} \cup {e[2] : e \in Flow}
    \cup Range(v.edb.assignment) \cup Range(v.edb.return)
    \cup Range(v.edb.condition)
    \cup LastFields("call")
    \cup {u[2] : u \in BagToSet(v.edb.used)}
    \cup {u[2] : u \in BagToSet(v.edb.used_deref)}
    \cup LastFields("defined") \cup LastFields("defined_deref")
    \cup LastFields("rhs_var") \cup LastFields("rhs_const")
    \cup LastFields("rhs_deref") \cup LastFields("rhs_address")
    \cup LastFields("call_arg_var") \cup LastFields("call_arg_const")
    \cup LastFields("call_arg_deref")
    \cup Range(edb.init) \cup edb.final

\* C2: for every accepted program the labels in label are pairwise
\* distinct, each elementary block has exactly one of them, and every
\* label any other relation mentions is in label.
C2_Uniqueness ==
    Accepted =>
        /\ \A i, j \in DOMAIN v.edb.label :
              v.edb.label[i] = v.edb.label[j] => i = j
        /\ v.nodes = v.edb.label
        /\ ReferencedLabels \subseteq Range(v.edb.label)

\* An accepted program with several blocks, edges and tagged facts.
C2_Witness ==
    /\ Accepted
    /\ Len(v.edb.label) >= 3
    /\ Len(v.edb.flow) >= 3
    /\ v.edb.rhs_deref # <<>>
    /\ v.edb.return # <<>>

\* C3: for every accepted program init is exactly the entry label of the
\* fragment of the function body, final is exactly that fragment's open
\* exits together with the labels in return, so every return label is in
\* final; main(){ return 0; } gives label = init = final = return = {l1}
\* and an empty flow.
C3_ProgramRoot ==
    Accepted =>
        /\ edb.init = <<frag.init>>
        /\ \E t \in ProgramVisits :
              /\ t.n = ast.ext[1].body
              /\ t.lo = 1
              /\ t.init = frag.init
              /\ t.finals = frag.finals
        /\ edb.final = Range(frag.finals) \cup Range(v.edb.return)
        /\ Range(v.edb.return) \subseteq edb.final
        /\ ast = Main(Compound(<<Return(Constant("0"))>>)) =>
              /\ v.edb.label = <<"l1">>
              /\ v.edb.return = <<"l1">>
              /\ edb.init = <<"l1">>
              /\ edb.final = {"l1"}
              /\ v.edb.flow = <<>>

\* An accepted program whose body leaves an exit open and also returns
\* from inside, so that final draws on both sources.
C3_Witness ==
    /\ Accepted
    /\ frag.finals # <<>>
    /\ \E l \in Range(v.edb.return) : l \notin Range(frag.finals)
    /\ edb.init = <<"l1">>

\* The root is a single function definition named main.
RootIsMain ==
    /\ Len(ast.ext) = 1
    /\ ast.ext[1].kind = "FuncDef"
    /\ ast.ext[1].name = "main"

\* C4 (as stated): when the root is not exactly one function definition
\* named main, the build fails with UnsupportedLanguageConstruct and with
\* no other kind of failure.
C4_RootRejection ==
    (pc # "start" /\ ~RootIsMain) =>
        (pc = "raised" /\ err = UnsupportedLanguageConstruct)

\* Where the emitted output is.
NoOutput == files = {} /\ ~rendered /\ ~analysed

\* C5: nothing is written, rendered or analysed before the traversal has
\* completed successfully, and a run whose build fails ends with no facts
\* and no graph emitted, whatever had been accumulated before the failure.
C5_NoPartialOutput ==
    /\ pc \in {"start", "raised"} => NoOutput
    /\ ~NoOutput => (err = NoError /\ pc \in {"written", "done"})

\* A build that failed after labels, edges and facts had been accumulated,
\* in a run asked to dump its output.
C5_Witness ==
    /\ pc = "raised"
    /\ args.output_edb
    /\ Len(v.edb.label) >= 2
    /\ v.edb.flow # <<>>
    /\ v.edb.assignment # <<>>
    /\ NoOutput

RhsRelations == {"rhs_var", "rhs_const", "rhs_deref", "rhs_address"}
CallArgRelations == {"call_arg_var", "call_arg_const", "call_arg_deref"}
\* The relations among rels that hold a tuple with the label.
RelationsAt(rels, label) == {rel \in rels : TagCount(rel, label) > 0}

\* C6: for every accepted program, at most one of the rhs_* relations
\* holds a tuple with a given assignment label (none for a compound
\* right-hand side), and at most one of the call_arg_* relations holds a
\* tuple with the label of a call that has exactly one argument.
C6_ShapeExclusivity ==
    Accepted =>
        /\ \A l \in Range(v.edb.assignment) :
              Cardinality(RelationsAt(RhsRelations, l)) <= 1
        /\ \A t \in ProgramVisits :
              /\ (t.n.kind = "Assignment" /\ t.n.rvalue.kind = "BinaryOp")
                    => RelationsAt(RhsRelations, t.init) = {}
              /\ (t.n.kind = "FuncCall" /\ Len(t.n.args) = 1)
                    => Cardinality(RelationsAt(CallArgRelations, t.init)) <= 1

\* An accepted assignment whose right-hand side is a dereference, tagged so.
C6_Witness ==
    /\ Accepted
    /\ \E t \in ProgramVisits :
          /\ t.n.kind = "Assignment"
          /\ t.n.rvalue = UnaryOp("*", ID("p"))
          /\ RelationsAt(RhsRelations, t.init) = {"rhs_deref"}

\* C7 (as stated): every accepted call with exactly one argument, whatever
\* the argument's shape, has exactly one tuple across the call_arg_*
\* relations; a call with no or several arguments has none.
C7_SingleArgumentTagging ==
    Accepted =>
        \A t \in ProgramVisits :
            t.n.kind = "FuncCall" =>
                CallArgTagCount(t.init) = IF Len(t.n.args) = 1 THEN 1 ELSE 0

\* The relation and value the sole argument of a call is tagged with, when
\* it is a constant, a variable or the dereference of a variable.
ArgShape(e) ==
    IF e.kind = "Constant" THEN <<"call_arg_const", e.value>>
    ELSE IF e.kind = "ID" THEN <<"call_arg_var", e.name>>
    ELSE IF e.kind = "UnaryOp" /\ e.op = "*" /\ e.expr.kind = "ID"
    THEN <<"call_arg_deref", e.expr.name>>
    ELSE <<>>

\* C7 (amended): an accepted call with exactly one argument has exactly one
\* tuple across the call_arg_* relations when the argument is a constant, a
\* variable or the dereference of a variable (in the relation of that shape,
\* with the callee and the value), and none when the argument has any other
\* shape (address-of, another unary form, a binary form); a call with no or
\* several arguments has none.
C7_TaggingOfRecognisedShapes ==
    Accepted =>
        \A t \in ProgramVisits :
            t.n.kind = "FuncCall" =>
                IF Len(t.n.args) = 1 /\ ArgShape(t.n.args[1]) # <<>>
                THEN /\ CallArgTagCount(t.init) = 1
                     /\ <<t.n.name, ArgShape(t.n.args[1])[2], t.init>>
                           \in Range(v.edb[ArgShape(t.n.args[1])[1]])
                ELSE CallArgTagCount(t.init) = 0

\* An accepted call whose only argument is the address of a variable: the
\* call and the read are recorded, and no call_arg_* tuple is.
C7_Witness ==
    /\ Accepted
    /\ \E t \in ProgramVisits :
          /\ t.n.kind = "FuncCall"
          /\ t.n.args = <<UnaryOp("&", ID("x"))>>
          /\ <<"f", t.init>> \in Range(v.edb.call)
          /\ BagIn(<<"x", t.init>>, v.edb.used)
          /\ CallArgTagCount(t.init) = 0

\* Both branches of an if are present.
BothBranches(t) ==
    t.n.kind = "If" /\ t.kids[1] # Absent /\ t.kids[2] # Absent

\* C8: for every if of an accepted program, the condition's label is
\* allocated before the labels of the branches and is the fragment's entry;
\* each present branch gets one edge condition -> branch entry; the open
\* exits are those of the present branches plus the condition for an absent
\* branch.  When an if with both branches is followed in a block by S, the
\* condition has exactly two outgoing edges, to the branch entries, every
\* open exit of the branches has an edge to S's entry, and the condition
\* has no edge to S.
C8_ConditionalComposition ==
    Accepted =>
        /\ \A t \in {u \in ProgramVisits : u.n.kind = "If"} :
              /\ t.init = LabelOf(t.lo)
              /\ t.init \in Range(v.edb.condition)
              /\ \A i \in 1..2 :
                    t.kids[i] # Absent =>
                        /\ t.kids[i].lo > t.lo
                        /\ EdgeCount(t.init, t.kids[i].init) = 1
              /\ Range(t.finals) =
                    UNION {Range(t.kids[i].finals) : i \in 1..2}
                    \cup (IF \E i \in 1..2 : t.kids[i] = Absent
                          THEN {t.init} ELSE {})
        /\ \A p \in {q \in Consecutive : BothBranches(q[1])} :
              /\ Successors(p[1].init) =
                    {p[1].kids[1].init, p[1].kids[2].init}
              /\ Cardinality({i \in DOMAIN v.edb.flow :
                                v.edb.flow[i][1] = p[1].init}) = 2
              /\ \A x \in Range(p[1].kids[1].finals)
                          \cup Range(p[1].kids[2].finals) :
                    <<x, p[2].init>> \in Flow
              /\ <<p[1].init, p[2].init>> \notin Flow

\* An accepted program in which an if with two branches that both leave an
\* exit open is followed by another statement.
C8_Witness ==
    /\ Accepted
    /\ \E p \in Consecutive :
          /\ BothBranches(p[1])
          /\ p[1].kids[1].finals # <<>>
          /\ p[1].kids[2].finals # <<>>
          /\ <<p[1].kids[1].init, p[2].init>> \in Flow

\* A loop has a body.
HasBody(t) == t.n.kind = "While" /\ t.kids[1] # Absent
\* The last statement a visit of a loop body executes, through blocks.
RECURSIVE LastVisit(_)
LastVisit(t) ==
    IF t.n.kind = "Compound" THEN LastVisit(t.kids[Len(t.kids)]) ELSE t

\* C9: for every loop of an accepted program, the fragment is (condition,
\* {condition}); with a body there is the edge condition -> body entry and
\* one back-edge to the condition from every open exit of the body and from
\* no other block of the body; the only edge from the loop to a statement S
\* that follows it in a block is condition -> entry of S; a loop that is the
\* last statement of another loop's body has the back-edge inner condition
\* -> outer condition.
C9_LoopComposition ==
    Accepted =>
        /\ \A t \in {u \in ProgramVisits : u.n.kind = "While"} :
              /\ t.init = LabelOf(t.lo)
              /\ t.finals = <<t.init>>
              /\ HasBody(t) =>
                    /\ EdgeCount(t.init, t.kids[1].init) = 1
                    /\ \A b \in LabelsOf(t.kids[1]) :
                          EdgeCount(b, t.init) =
                              IF b \in Range(t.kids[1].finals) THEN 1 ELSE 0
                    /\ LastVisit(t.kids[1]).n.kind = "While" =>
                          <<LastVisit(t.kids[1]).init, t.init>> \in Flow
        /\ \A p \in {q \in Consecutive : q[1].n.kind = "While"} :
              {e \in Flow : e[1] \in LabelsOf(p[1]) /\ e[2] = p[2].init}
                  = {<<p[1].init, p[2].init>>}

\* An accepted program in which a loop whose body is another loop is
\* followed by a statement.
C9_Witness ==
    /\ Accepted
    /\ \E p \in Consecutive :
          /\ HasBody(p[1])
          /\ HasBody(p[1].kids[1])
          /\ <<p[1].kids[1].init, p[1].init>> \in Flow
          /\ <<p[1].init, p[2].init>> \in Flow

\* The expressions a statement reads.
ReadExprs(n) ==
    CASE n.kind = "Assignment" -> <<n.rvalue>>
      [] n.kind = "Return" -> <<n.expr>>
      [] n.kind = "FuncCall" -> n.args
      [] n.kind \in {"If", "While"} -> <<n.cond>>
      [] OTHER -> <<>>

\* The variables that occur in an expression, and those that occur in it as
\* the operand of a dereference.
RECURSIVE Names(_), DerefNames(_)
Names(e) ==
    CASE e.kind = "ID" -> {e.name}
      [] e.kind = "UnaryOp" -> Names(e.expr)
      [] e.kind = "BinaryOp" -> Names(e.left) \cup Names(e.right)
      [] OTHER -> {}
DerefNames(e) ==
    CASE e.kind = "UnaryOp" ->
           IF e.op = "*" /\ e.expr.kind = "ID" THEN {e.expr.name}
           ELSE DerefNames(e.expr)
      [] e.kind = "BinaryOp" -> DerefNames(e.left) \cup DerefNames(e.right)
      [] OTHER -> {}

\* The variables a relation of (variable, label) pairs records at a label.
UsedAt(label) == {u[1] : u \in {w \in BagToSet(v.edb.used) : w[2] = label}}
UsedDerefAt(label) ==
    {u[1] : u \in {w \in BagToSet(v.edb.used_deref) : w[2] = label}}

\* C10 (as stated): the scan of every expression an accepted program reads
\* returns disjoint direct-read and dereferenced-read sets, and no
\* (variable, label) pair is in both used and used_deref.
C10_ReadSetDisjointness ==
    Accepted =>
        /\ BagToSet(v.edb.used) \cap BagToSet(v.edb.used_deref) = {}
        /\ \A t \in ProgramVisits :
              \A i \in DOMAIN ReadExprs(t.n) :
                  ExprVisit(NewExpressionVisitor, ReadExprs(t.n)[i]).variables
                  \cap ExprVisit(NewExpressionVisitor,
                                 ReadExprs(t.n)[i]).deref_variables = {}

\* C10 (amended): the scan's two sets need not be disjoint; at the label of
\* a statement, used records every variable that occurs in the expressions
\* the statement reads, whether read directly or through a dereference, and
\* used_deref records exactly those that occur as the operand of a
\* dereference, so every pair in used_deref is also in used.
C10_ReadSets ==
    Accepted =>
        /\ BagToSet(v.edb.used_deref) \subseteq BagToSet(v.edb.used)
        /\ \A t \in ProgramVisits :
              ReadExprs(t.n) # <<>> =>
                  /\ UsedAt(t.init) =
                        UNION {Names(ReadExprs(t.n)[i])
                               : i \in DOMAIN ReadExprs(t.n)}
                  /\ UsedDerefAt(t.init) =
                        UNION {DerefNames(ReadExprs(t.n)[i])
                               : i \in DOMAIN ReadExprs(t.n)}

\* An accepted statement that reads one variable both directly and through
\* a dereference.
C10_Witness ==
    /\ Accepted
    /\ \E t \in ProgramVisits :
          /\ t.n.kind = "Return"
          /\ "x" \in DerefNames(t.n.expr)
          /\ t.n.expr.kind = "BinaryOp"
          /\ t.n.expr.right = ID("x")
          /\ BagIn(<<"x", t.init>>, v.edb.used)
          /\ BagIn(<<"x", t.init>>, v.edb.used_deref)

====
